---- MODULE Spec2Model ----
(***************************************************************************)
(* Model of the GstStabilizer elements:                                    *)
(*   - OpticalFlowMuxer      (python/gst_virtual_tripod.py)                *)
(*   - OpticalFlowCorrector  (python/flow_corrector.py)                    *)
(*   - OpticalFlowFinder     (python/gst_virtual_tripod.py)                *)
(* Each chain function is one action; the values handed in by the host     *)
(* (buffers) and by the vision primitives (flow, fit and warp outcomes)    *)
(* are drawn from small sets.                                              *)
(***************************************************************************)
EXTENDS Integers, Sequences, FiniteSets, TLC

VARIABLES
    \* ---- OpticalFlowMuxer ----
    pending_flow,     \* self._pending_flow  (deque of flow buffers)
    pending_main,     \* self._pending_main  (deque of main buffers)
    mux_calls,        \* the calls made to self.mux(buf, flow), in order
    mux_ret,          \* value returned by the last _chain call
    flow_arrived,     \* every buffer received on flow_sink_pad, in order
    main_arrived,     \* every buffer received on main_sink_pad, in order
    attempts,         \* every pair of heads popped by _try_mux, in order
    \* ---- OpticalFlowCorrector ----
    multiply_transforms,  \* property multiply_transforms (composed mode)
    algorithm,            \* property algorithm
    reference_img,        \* self._reference_img
    reference_blob,       \* self._reference_blob
    last_output_img,      \* self._last_output_img
    reference_transform,  \* self._reference_transform
    finder,               \* self._finder
    ignore_box,           \* properties ignore_box_{min_x,max_x,min_y,max_y}
    corr_ret,             \* how the last _chain call ended
    received,             \* every buffer passed to _chain, in order
    pushed,               \* every buffer pushed on srcpad, in order
    fitted,               \* every transform findHomography returned, in order
    cur,                  \* the last _chain call: branch taken and values used
    util_names,           \* which of cv, array "from cv_gst_util import *" binds
    \* ---- the video stream ----
    frame_size,           \* <<width, height>> in the caps of every buffer
    \* ---- OpticalFlowFinder ----
    previous_frame,       \* self._previous_frame
    mask,                 \* self._mask
    tracker_box,          \* properties ignore_box_{min_x,max_x,min_y,max_y}
    mask_writes,          \* how many times self._mask has been assigned
    frames_received,      \* every buffer passed to chain, in order
    flow_pushed,          \* every buffer pushed on srcpad, in order
    track                 \* the last chain call: what was done and with what

mux_vars == <<pending_flow, pending_main, mux_calls, mux_ret,
              flow_arrived, main_arrived, attempts>>

corr_vars == <<multiply_transforms, algorithm, reference_img, reference_blob,
               last_output_img, reference_transform, finder, ignore_box,
               corr_ret, received, pushed, fitted, cur, util_names>>

tracker_vars == <<previous_frame, mask, tracker_box, mask_writes,
                  frames_received, flow_pushed, track>>

vars == <<pending_flow, pending_main, mux_calls, mux_ret,
          flow_arrived, main_arrived, attempts,
          multiply_transforms, algorithm, reference_img, reference_blob,
          last_output_img, reference_transform, finder, ignore_box,
          corr_ret, received, pushed, fitted, cur, util_names,
          frame_size,
          previous_frame, mask, tracker_box, mask_writes,
          frames_received, flow_pushed, track>>

\* ------------------------------------------------------------------------
\* Bounds
\* ------------------------------------------------------------------------
MaxTs == 4          \* timestamps are 1..MaxTs
MaxArrivals == 3    \* buffers received per muxer port
MaxFrames == 4      \* buffers received by the corrector
FrameWidth == 3     \* the frames are FrameWidth x FrameHeight ...
FrameHeight == 2    \* ... or FrameHeight x FrameWidth
MaxTrackerFrames == 3   \* buffers received by the finder
MaxCorners == 1     \* corners the detector returns for a frame

\* Python's None; every value that may be None is a record
None == [none |-> TRUE]

Timestamps == 1..MaxTs

\* ------------------------------------------------------------------------
\* Motion-data wire format (pickle format 2 of None or a pair of lists)
\* ------------------------------------------------------------------------
\* A flow is None or a pair of lists of points (c0, c1).
Flow(c0, c1) == [c0 |-> c0, c1 |-> c1]
EmptyFlow == Flow(<<>>, <<>>)

PICKLE_FORMAT == 2

\* cPickle.dumps(flow, PICKLE_FORMAT): the serialized string
Dumps(flow) == [proto |-> PICKLE_FORMAT, body |-> flow]

\* cPickle.loads(data)
Loads(data) == data.body

\* ------------------------------------------------------------------------
\* OpticalFlowMuxer
\* ------------------------------------------------------------------------
FLOW_OK    == "FLOW_OK"
FLOW_ERROR == "FLOW_ERROR"
NOT_CALLED == "NOT_CALLED"   \* no _chain call has returned yet

\* main buffers: pixel data and a timestamp
MainData == {"a", "b"}
MainBufs == [data : MainData, timestamp : Timestamps]

\* flow buffers: pickled flow and a timestamp
FlowBufs == [data : {Dumps(f) : f \in {None, EmptyFlow}},
             timestamp : Timestamps]

\* self.mux(buf, flow): the combine operation of the subclass; it receives
\* the main buffer and the unpickled flow.  The model records the call.
Mux(buf, flow) == [buf |-> buf, flow |-> flow]

\* Variants of _try_mux with a plausible slip each.
\* pop() instead of popleft() on the main queue
TryMux_PopRight(pf, pm) ==
    IF pf # <<>> /\ pm # <<>>
    THEN LET flow_buf == Head(pf)
             flow     == Loads(flow_buf.data)
             buf      == pm[Len(pm)]
             rest     == SubSeq(pm, 1, Len(pm) - 1)
         IN  IF buf.timestamp = flow_buf.timestamp
             THEN [pf |-> Tail(pf), pm |-> rest,
                   calls |-> << [buf |-> buf, flow |-> flow] >>,
                   popped |-> << [main |-> buf, flow |-> flow_buf] >>,
                   ret |-> FLOW_OK]
             ELSE [pf |-> Tail(pf), pm |-> rest,
                   calls |-> << >>,
                   popped |-> << [main |-> buf, flow |-> flow_buf] >>,
                   ret |-> FLOW_ERROR]
    ELSE [pf |-> pf, pm |-> pm, calls |-> << >>, popped |-> << >>,
          ret |-> FLOW_OK]

\* the timestamp comparison left out: every popped pair is combined
TryMux_NoCompare(pf, pm) ==
    IF pf # <<>> /\ pm # <<>>
    THEN LET flow_buf == Head(pf)
             flow     == Loads(flow_buf.data)
             buf      == Head(pm)
         IN  [pf |-> Tail(pf), pm |-> Tail(pm),
              calls |-> << [buf |-> buf, flow |-> flow] >>,
              popped |-> << [main |-> buf, flow |-> flow_buf] >>,
              ret |-> FLOW_OK]
    ELSE [pf |-> pf, pm |-> pm, calls |-> << >>, popped |-> << >>,
          ret |-> FLOW_OK]

\* queues of capacity one: a second lone item pushes the first one out
TryMux_DropOldest(pf, pm) ==
    IF pf # <<>> /\ pm # <<>>
    THEN LET flow_buf == Head(pf)
             flow     == Loads(flow_buf.data)
             buf      == Head(pm)
         IN  IF buf.timestamp = flow_buf.timestamp
             THEN [pf |-> Tail(pf), pm |-> Tail(pm),
                   calls |-> << [buf |-> buf, flow |-> flow] >>,
                   popped |-> << [main |-> buf, flow |-> flow_buf] >>,
                   ret |-> FLOW_OK]
             ELSE [pf |-> Tail(pf), pm |-> Tail(pm),
                   calls |-> << >>,
                   popped |-> << [main |-> buf, flow |-> flow_buf] >>,
                   ret |-> FLOW_ERROR]
    ELSE [pf |-> IF Len(pf) > 1 THEN Tail(pf) ELSE pf,
          pm |-> IF Len(pm) > 1 THEN Tail(pm) ELSE pm,
          calls |-> << >>, popped |-> << >>, ret |-> FLOW_OK]

\* a mismatch pops the flow head only: the main head waits for the next
TryMux_KeepMain(pf, pm) ==
    IF pf # <<>> /\ pm # <<>>
    THEN LET flow_buf == Head(pf)
             flow     == Loads(flow_buf.data)
             buf      == Head(pm)
         IN  IF buf.timestamp = flow_buf.timestamp
             THEN [pf |-> Tail(pf), pm |-> Tail(pm),
                   calls |-> << Mux(buf, flow) >>,
                   popped |-> << [main |-> buf, flow |-> flow_buf] >>,
                   ret |-> FLOW_OK]
             ELSE [pf |-> Tail(pf), pm |-> pm,
                   calls |-> << >>,
                   popped |-> << [main |-> buf, flow |-> flow_buf] >>,
                   ret |-> FLOW_ERROR]
    ELSE [pf |-> pf, pm |-> pm, calls |-> << >>, popped |-> << >>,
          ret |-> FLOW_OK]

\* a mismatch drops the older head only, to catch up with the other port
TryMux_Resync(pf, pm) ==
    IF pf # <<>> /\ pm # <<>>
    THEN LET flow_buf == Head(pf)
             flow     == Loads(flow_buf.data)
             buf      == Head(pm)
         IN  IF buf.timestamp = flow_buf.timestamp
             THEN [pf |-> Tail(pf), pm |-> Tail(pm),
                   calls |-> << Mux(buf, flow) >>,
                   popped |-> << [main |-> buf, flow |-> flow_buf] >>,
                   ret |-> FLOW_OK]
             ELSE [pf |-> IF flow_buf.timestamp < buf.timestamp
                          THEN Tail(pf) ELSE pf,
                   pm |-> IF buf.timestamp < flow_buf.timestamp
                          THEN Tail(pm) ELSE pm,
                   calls |-> << >>,
                   popped |-> << [main |-> buf, flow |-> flow_buf] >>,
                   ret |-> FLOW_ERROR]
    ELSE [pf |-> pf, pm |-> pm, calls |-> << >>, popped |-> << >>,
          ret |-> FLOW_OK]

\* _try_mux on queues pf (flow) and pm (main): the queues left, the mux
\* calls made, the heads popped and the value returned.
TryMux(pf, pm) ==
    IF pf # <<>> /\ pm # <<>>
    THEN LET flow_buf == Head(pf)
             flow     == Loads(flow_buf.data)
             buf      == Head(pm)
         IN  IF buf.timestamp = flow_buf.timestamp
             THEN [pf |-> Tail(pf), pm |-> Tail(pm),
                   calls |-> << Mux(buf, flow) >>,
                   popped |-> << [main |-> buf, flow |-> flow_buf] >>,
                   ret |-> FLOW_OK]
             ELSE [pf |-> Tail(pf), pm |-> Tail(pm),
                   calls |-> << >>,
                   popped |-> << [main |-> buf, flow |-> flow_buf] >>,
                   ret |-> FLOW_ERROR]
    ELSE [pf |-> pf, pm |-> pm, calls |-> << >>, popped |-> << >>,
          ret |-> FLOW_OK]

\* last timestamp received on a port (0 before the first buffer)
LastTs(arrived) ==
    IF arrived = <<>> THEN 0 ELSE arrived[Len(arrived)].timestamp

\* _chain(pad, buf) with pad == self.flow_sink_pad
ChainFlow(buf) ==
    /\ Len(flow_arrived) < MaxArrivals
    /\ buf.timestamp > LastTs(flow_arrived)
    /\ LET r == TryMux(Append(pending_flow, buf), pending_main)
       IN  /\ pending_flow' = r.pf
           /\ pending_main' = r.pm
           /\ mux_calls' = mux_calls \o r.calls
           /\ attempts' = attempts \o r.popped
           /\ mux_ret' = r.ret
    /\ flow_arrived' = Append(flow_arrived, buf)
    /\ UNCHANGED main_arrived
    /\ UNCHANGED <<corr_vars, frame_size, tracker_vars>>

\* _chain(pad, buf) with pad == self.main_sink_pad
ChainMain(buf) ==
    /\ Len(main_arrived) < MaxArrivals
    /\ buf.timestamp > LastTs(main_arrived)
    /\ LET r == TryMux(pending_flow, Append(pending_main, buf))
       IN  /\ pending_flow' = r.pf
           /\ pending_main' = r.pm
           /\ mux_calls' = mux_calls \o r.calls
           /\ attempts' = attempts \o r.popped
           /\ mux_ret' = r.ret
    /\ main_arrived' = Append(main_arrived, buf)
    /\ UNCHANGED flow_arrived
    /\ UNCHANGED <<corr_vars, frame_size, tracker_vars>>

MuxFlowArrival == \E buf \in FlowBufs : ChainFlow(buf)
MuxMainArrival == \E buf \in MainBufs : ChainMain(buf)

InitMux ==
    /\ pending_flow = <<>>
    /\ pending_main = <<>>
    /\ mux_calls = <<>>
    /\ mux_ret = NOT_CALLED
    /\ flow_arrived = <<>>
    /\ main_arrived = <<>>
    /\ attempts = <<>>

\* ------------------------------------------------------------------------
\* Buffers and images
\* ------------------------------------------------------------------------
\* pixel contents of the raw frames
FrameData == { [raw |-> "a"], [raw |-> "b"] }

\* the n-th buffer of the video stream, with pixel contents d: timestamps
\* grow with n, every frame lasts one unit
FrameBuf(d, n) ==
    [data |-> d, caps |-> [width |-> frame_size[1], height |-> frame_size[2]],
     timestamp |-> n, duration |-> 1, offset |-> n - 1, offset_end |-> n]

\* img_of_buf(buf): an image header over the data of the buffer
ImgOfBuf(buf) == IF buf = None THEN None ELSE [pixels |-> buf.data]

\* buf_of_img(img, bufmodel=bufmodel)
BufOfImg_NoModel(img, bufmodel) ==
    [data |-> img.pixels, caps |-> None,
     duration |-> -1, timestamp |-> -1, offset |-> -1, offset_end |-> -1]

BufOfImg(img, bufmodel) ==
    [data |-> img.pixels, caps |-> bufmodel.caps,
     duration |-> bufmodel.duration, timestamp |-> bufmodel.timestamp,
     offset |-> bufmodel.offset, offset_end |-> bufmodel.offset_end]

\* gray_scale(img)
GrayScale(img) == [gray |-> img.pixels]

\* ------------------------------------------------------------------------
\* Transforms: 3x3 matrices
\* ------------------------------------------------------------------------
Identity == << <<1, 0, 0>>, <<0, 1, 0>>, <<0, 0, 1>> >>

\* a.dot(b)
Dot(a, b) ==
    [i \in 1..3 |-> [j \in 1..3 |->
        a[i][1] * b[1][j] + a[i][2] * b[2][j] + a[i][3] * b[3][j]]]

\* homographies findHomography returns in the model: a translation and a
\* quarter turn (they do not commute)
Translation == << <<1, 0, 1>>, <<0, 1, 0>>, <<0, 0, 1>> >>
QuarterTurn == << <<0, -1, 0>>, <<1, 0, 0>>, <<0, 0, 1>> >>
Homographies == { Translation, QuarterTurn }

CV_ERROR == "cv2.error"

\* what cv2.findHomography(points0, points1, RANSAC, 3) can do on a flow:
\* return a homography, or raise cv2.error (always when there is no point
\* pair to fit)
Returned(value) == [returned |-> value]
Raised(exception) == [raised |-> exception]

FitOutcomes(flow) ==
    IF Len(flow.c0) = 0 THEN { Raised(CV_ERROR) }
    ELSE { Returned(h) : h \in Homographies } \cup { Raised(CV_ERROR) }

\* cv2.warpPerspective(img, m, size, dst=dst, WARP_INVERSE_MAP,
\* BORDER_TRANSPARENT): img mapped through the inverse of m, drawn over dst
WarpPerspective(img, m, dst) ==
    [pixels |-> [warp_of |-> img.pixels, inverse_of |-> m,
                 over |-> dst.pixels]]

\* ------------------------------------------------------------------------
\* The finder used by the corrector (module cv_flow_finder)
\* ------------------------------------------------------------------------
LUCAS_KANADE == 1
SURF == 2
Algorithms == { LUCAS_KANADE, SURF, 3 }

VALUE_ERROR == "ValueError"
INDEX_ERROR == "IndexError"
NAME_ERROR == "NameError"

\* _create_finder(): the finder for the algorithm (its mask not set yet),
\* or ValueError
CreateFinder(alg) ==
    IF alg = LUCAS_KANADE THEN [kind |-> "LucasKanadeFinder", mask |-> None]
    ELSE IF alg = SURF THEN [kind |-> "SURFFinder", mask |-> None]
    ELSE [kind |-> VALUE_ERROR, mask |-> None]

\* ------------------------------------------------------------------------
\* Ignore box and mask
\* ------------------------------------------------------------------------
\* an ignore box <<min_x, max_x, min_y, max_y>>; the properties default to -1
DisabledBox == << -1, -1, -1, -1 >>

\* _has_ignore_box()
HasIgnoreBox(box) == \A i \in 1..4 : box[i] # -1

\* the mask _get_flow builds for a frame of the given size: a matrix
\* header of height rows and width columns over an array of width*height
\* ones in which data[y*height + x] is set to 0 for every (x, y) of the
\* box.  An index outside the array raises IndexError, which leaves the
\* header without data; a negative index counts from the end.
BuildMask(width, height, box) ==
    LET size == width * height
        cells == { <<x, y>> : x \in box[1]..box[2], y \in box[3]..box[4] }
        index(c) == c[2] * height + c[1]
        inside(i) == i >= -size /\ i < size
        position(i) == IF i < 0 THEN i + size ELSE i
        header == [rows |-> height, cols |-> width]
    IN  IF \A c \in cells : inside(index(c))
        THEN [raised |-> FALSE,
              mask |-> [header |-> header,
                        data |-> [i \in 1..size |->
                           IF \E c \in cells : position(index(c)) = i - 1
                           THEN 0 ELSE 1]]]
        ELSE [raised |-> TRUE,
              mask |-> [header |-> header, data |-> <<>>]]

FourPoints0 == << <<0, 0>>, <<4, 0>>, <<0, 4>>, <<4, 4>> >>
FourPoints1 == << <<1, 0>>, <<5, 0>>, <<1, 4>>, <<5, 4>> >>

\* flows finder.optical_flow_img returns in the model
CorrFlows == { None, EmptyFlow, Flow(FourPoints0, FourPoints1) }

\* blobs (the finder's anchor for the next call) it returns with them
Blobs == { [blob |-> 1], [blob |-> 2] }

\* finder.warp_blob(blob, transform)
WarpBlob(blob, transform) == [warped |-> blob, by |-> transform]

\* ------------------------------------------------------------------------
\* OpticalFlowCorrector._chain
\* ------------------------------------------------------------------------
\* first-frame branch: the new reference image, anchor and last output and
\* the buffer pushed
FirstFrame_KeepLastOutput(buf, last_out) ==
    [reference_img |-> ImgOfBuf(buf), last_output_img |-> last_out,
     reference_blob |-> None, push |-> buf]

FirstFrame(buf, last_out) ==
    [reference_img |-> ImgOfBuf(buf), last_output_img |-> ImgOfBuf(buf),
     reference_blob |-> None, push |-> buf]

\* the arguments _get_flow passes to finder.optical_flow_img
FinderCall(buf, ref_img, ref_blob) ==
    [gray_ref_img |-> GrayScale(ref_img),
     gray_img |-> GrayScale(ImgOfBuf(buf)),
     blob |-> ref_blob]

\* "if flow is None": the frame is passed through, nothing is updated
IsMiss(flow) == flow = None

\* the accumulator after a fit returned transform
Accumulate_Right(mult, transform, acc) ==
    IF mult THEN Dot(acc, transform) ELSE transform

Accumulate(mult, transform, acc) ==
    IF mult THEN Dot(transform, acc) ELSE transform

\* reference image and anchor after a successful warp of img into new_img
UpdateReference_Swapped(mult, img, new_img, blob, transform) ==
    IF mult
    THEN [reference_img |-> new_img,
          reference_blob |-> WarpBlob(blob, transform)]
    ELSE [reference_img |-> img, reference_blob |-> blob]

UpdateReference(mult, img, new_img, blob, transform) ==
    IF mult
    THEN [reference_img |-> img, reference_blob |-> blob]
    ELSE [reference_img |-> new_img,
          reference_blob |-> WarpBlob(blob, transform)]

\* the except branch: reference image, anchor and the buffer pushed
OnCvError_KeepBlob(buf, ref_img, ref_blob) ==
    [reference_img |-> ImgOfBuf(buf), reference_blob |-> ref_blob,
     push |-> buf]

OnCvError_KeepImg(buf, ref_img, ref_blob) ==
    [reference_img |-> ref_img, reference_blob |-> None, push |-> buf]

OnCvError_DropImg(buf, ref_img, ref_blob) ==
    [reference_img |-> None, reference_blob |-> None, push |-> buf]

OnCvError(buf, ref_img, ref_blob) ==
    [reference_img |-> ImgOfBuf(buf), reference_blob |-> None, push |-> buf]

\* what the except branch leaves as it finds it: the accumulator and the
\* last output
ExceptKeeps_Reset(acc, last_out) ==
    [reference_transform |-> Identity, last_output_img |-> last_out]

ExceptKeeps(acc, last_out) ==
    [reference_transform |-> acc, last_output_img |-> last_out]

\* what the last call did, for the properties
Call(branch, buf, finder_call, flow, blob) ==
    [branch |-> branch, buf |-> buf, finder_call |-> finder_call,
     flow |-> flow, blob |-> blob, after |-> cur.branch]

\* self._finder after lines 137-138
FinderInUse == IF finder = None THEN CreateFinder(algorithm) ELSE finder

\* the condition of the if of _get_flow (lines 192-194)
NeedsMask(buf) ==
    /\ algorithm = LUCAS_KANADE
    /\ FinderInUse.mask = None
    /\ HasIgnoreBox(ignore_box)

\* flow_corrector.py imports neither cv nor array itself: the two names
\* are bound only if "from cv_gst_util import *" (line 25) brings them
AllNames == { "cv", "array" }
UtilNames == { {}, { "cv" }, AllNames }

\* lines 197-205 for the buffer: the value self._finder.mask has afterwards
\* and the exception raised, if any.  Without cv, line 200 raises NameError
\* before the assignment; with cv but without array, line 200 assigns the
\* header and line 201 raises NameError; with both, the mask is built.
MaskFor(buf) ==
    LET built == BuildMask(buf.caps.width, buf.caps.height, ignore_box)
    IN  IF "cv" \notin util_names
        THEN [raised |-> TRUE, error |-> NAME_ERROR, mask |-> None]
        ELSE IF "array" \notin util_names
        THEN [raised |-> TRUE, error |-> NAME_ERROR,
              mask |-> [header |-> built.mask.header, data |-> <<>>]]
        ELSE [raised |-> built.raised, error |-> INDEX_ERROR,
              mask |-> built.mask]

\* _chain(pad, buf) where the finder returns (flow, blob), findHomography
\* does fit and warpPerspective does warp
ChainCorrector(buf, flow, blob, fit, warp) ==
    /\ Len(received) < MaxFrames
    /\ received' = Append(received, buf)
    /\ UNCHANGED <<multiply_transforms, algorithm, ignore_box, util_names>>
    /\ UNCHANGED <<mux_vars, frame_size, tracker_vars>>
    /\ IF reference_img = None
       THEN \* lines 131-135
            LET r == FirstFrame(buf, last_output_img)
            IN  /\ reference_img' = r.reference_img
                /\ last_output_img' = r.last_output_img
                /\ reference_blob' = r.reference_blob
                /\ pushed' = Append(pushed, r.push)
                /\ corr_ret' = FLOW_OK
                /\ cur' = Call("first", buf, None, None, None)
                /\ UNCHANGED <<reference_transform, finder, fitted>>
       ELSE IF finder = None /\ CreateFinder(algorithm).kind = VALUE_ERROR
       THEN \* lines 137-138, 127: the exception leaves _chain
            /\ corr_ret' = VALUE_ERROR
            /\ cur' = Call("raise", buf, None, None, None)
            /\ UNCHANGED <<reference_img, last_output_img, reference_blob,
                           reference_transform, finder, pushed, fitted>>
       ELSE IF NeedsMask(buf) /\ MaskFor(buf).raised
       THEN \* lines 192-204: the exception leaves _chain, the finder
            \* keeps the header if line 200 created it
            /\ finder' = [FinderInUse EXCEPT !.mask = MaskFor(buf).mask]
            /\ corr_ret' = MaskFor(buf).error
            /\ cur' = Call("raise", buf, None, None, None)
            /\ UNCHANGED <<reference_img, last_output_img, reference_blob,
                           reference_transform, pushed, fitted>>
       ELSE
            /\ finder' = IF NeedsMask(buf)
                         THEN [FinderInUse EXCEPT !.mask = MaskFor(buf).mask]
                         ELSE FinderInUse
            /\ LET call == FinderCall(buf, reference_img, reference_blob)
               IN
               IF IsMiss(flow)
               THEN \* lines 143-144
                    /\ pushed' = Append(pushed, buf)
                    /\ corr_ret' = FLOW_OK
                    /\ cur' = Call("miss", buf, call, flow, None)
                    /\ UNCHANGED <<reference_img, last_output_img,
                                   reference_blob, reference_transform,
                                   fitted>>
               ELSE IF fit = Raised(CV_ERROR)
               THEN \* line 147 raises, lines 177-181
                    LET r == OnCvError(buf, reference_img, reference_blob)
                        k == ExceptKeeps(reference_transform,
                                         last_output_img)
                    IN  /\ reference_img' = r.reference_img
                        /\ reference_blob' = r.reference_blob
                        /\ reference_transform' = k.reference_transform
                        /\ last_output_img' = k.last_output_img
                        /\ pushed' = Append(pushed, r.push)
                        /\ corr_ret' = FLOW_OK
                        /\ cur' = Call("fit_failed", buf, call, flow, None)
                        /\ UNCHANGED fitted
               ELSE
                    \* lines 147-155
                    /\ fitted' = Append(fitted, fit.returned)
                    /\ reference_transform' =
                          Accumulate(multiply_transforms, fit.returned,
                                     reference_transform)
                    /\ IF warp = CV_ERROR
                       THEN \* lines 161-166 raise, lines 177-181
                            LET r == OnCvError(buf, reference_img,
                                               reference_blob)
                                k == ExceptKeeps(reference_transform,
                                                 last_output_img)
                            IN  /\ reference_img' = r.reference_img
                                /\ reference_blob' = r.reference_blob
                                /\ last_output_img' = k.last_output_img
                                /\ pushed' = Append(pushed, r.push)
                                /\ corr_ret' = FLOW_OK
                                /\ cur' = Call("warp_failed", buf, call,
                                               flow, None)
                       ELSE \* lines 157-176
                            LET img == ImgOfBuf(buf)
                                new_img == WarpPerspective(img,
                                              reference_transform',
                                              last_output_img)
                                new_buf == BufOfImg(new_img, buf)
                                r == UpdateReference(multiply_transforms,
                                        img, new_img, blob, fit.returned)
                            IN  /\ reference_img' = r.reference_img
                                /\ reference_blob' = r.reference_blob
                                /\ last_output_img' = new_img
                                /\ pushed' = Append(pushed, new_buf)
                                /\ corr_ret' = FLOW_OK
                                /\ cur' = Call("corrected", buf, call,
                                               flow, blob)

WarpOutcomes == { "warped", CV_ERROR }

CorrectorFrame ==
    \E d \in FrameData, flow \in CorrFlows, blob \in Blobs :
      \E fit \in (IF flow = None THEN { Raised(CV_ERROR) }
                   ELSE FitOutcomes(flow)),
         warp \in WarpOutcomes :
        ChainCorrector(FrameBuf(d, Len(received) + 1), flow, blob, fit, warp)

\* __init__ of the corrector, with the properties the model varies
InitCorr(mult, alg, box, names) ==
    /\ multiply_transforms = mult
    /\ util_names = names
    /\ algorithm = alg
    /\ ignore_box = box
    /\ reference_img = None
    /\ reference_blob = None
    /\ last_output_img = None
    /\ reference_transform = Identity
    /\ finder = None
    /\ corr_ret = NOT_CALLED
    /\ received = <<>>
    /\ pushed = <<>>
    /\ fitted = <<>>
    /\ cur = [branch |-> "none", buf |-> None, finder_call |-> None,
              flow |-> None, blob |-> None, after |-> "none"]

\* ------------------------------------------------------------------------
\* OpticalFlowFinder
\* ------------------------------------------------------------------------
\* points the detector and the tracker return in the model
TrackPoints == { <<1, 0>>, <<0, 1>> }

\* lists of at most n elements of set s
ListsUpTo(s, n) == UNION { [1..k -> s] : k \in 0..n }

\* _in_ignore_box((x, y))
InIgnoreBox_Exclusive(p, box) ==
    /\ HasIgnoreBox(box)
    /\ p[1] > box[1] /\ p[1] < box[2]
    /\ p[2] > box[3] /\ p[2] < box[4]

InIgnoreBox(p, box) ==
    /\ HasIgnoreBox(box)
    /\ p[1] >= box[1] /\ p[1] <= box[2]
    /\ p[2] >= box[3] /\ p[2] <= box[4]

Min3(a, b, c) ==
    IF a <= b /\ a <= c THEN a ELSE IF b <= c THEN b ELSE c

\* _filter_features(features, flter, errors): the features whose status is
\* set and that are not in the ignore box, in order (zip stops at the
\* shortest list)
RECURSIVE FilterUpTo(_, _, _, _)
FilterUpTo(features, flter, box, n) ==
    IF n = 0 THEN <<>>
    ELSE LET before == FilterUpTo(features, flter, box, n - 1)
         IN  IF flter[n] = 1 /\ ~ InIgnoreBox(features[n], box)
             THEN Append(before, features[n])
             ELSE before

FilterFeatures(features, flter, errors, box) ==
    FilterUpTo(features, flter, box,
               Min3(Len(flter), Len(features), Len(errors)))

\* optical_flow(buf0, buf1) where _features(img0) returns corners0 and
\* CalcOpticalFlowPyrLK returns (corners1, status, track_errors)
OpticalFlow(buf0, buf1, corners0, corners1, status, track_errors, box) ==
    IF buf0 = None THEN None
    ELSE Flow(FilterFeatures(corners0, status, track_errors, box),
              FilterFeatures(corners1, status, track_errors, box))

\* new_buf.stamp(buf): timestamp, duration and offsets of buf
Stamp(new_buf, buf) ==
    [data |-> new_buf.data, timestamp |-> buf.timestamp,
     duration |-> buf.duration, offset |-> buf.offset,
     offset_end |-> buf.offset_end]

\* the condition of the first if of chain (line 127)
TrackerNeedsMask == mask = None /\ HasIgnoreBox(tracker_box)

\* what the last call did, for the properties: the images the detector and
\* the tracker were run on (None when they were not run) and what they
\* returned
Tracked(outcome, buf, img0, img1, corners0, corners1, status) ==
    [outcome |-> outcome, buf |-> buf, img0 |-> img0, img1 |-> img1,
     corners0 |-> corners0, corners1 |-> corners1, status |-> status]

\* chain(pad, buf) where the detector returns corners0 and the tracker
\* (corners1, status, track_errors)
ChainFinder(buf, corners0, corners1, status, track_errors) ==
    /\ Len(frames_received) < MaxTrackerFrames
    /\ frames_received' = Append(frames_received, buf)
    /\ UNCHANGED <<tracker_box, frame_size, mux_vars, corr_vars>>
    /\ LET built == BuildMask(buf.caps.width, buf.caps.height, tracker_box)
       IN
       IF TrackerNeedsMask /\ built.raised
       THEN \* lines 133-137: IndexError leaves chain, self._mask keeps
            \* the header created on line 133
            /\ mask' = built.mask
            /\ mask_writes' = mask_writes + 1
            /\ track' = Tracked(INDEX_ERROR, buf, None, None,
                                <<>>, <<>>, <<>>)
            /\ UNCHANGED <<previous_frame, flow_pushed>>
       ELSE
            /\ mask' = IF TrackerNeedsMask THEN built.mask ELSE mask
            /\ mask_writes' = IF TrackerNeedsMask THEN mask_writes + 1
                              ELSE mask_writes
            /\ LET flow == OpticalFlow(previous_frame, buf, corners0,
                              corners1, status, track_errors, tracker_box)
                   pickled_flow == Dumps(flow)
                   new_buf == Stamp([data |-> pickled_flow], buf)
               IN  /\ flow_pushed' = Append(flow_pushed, new_buf)
                   /\ track' =
                        IF previous_frame = None
                        THEN Tracked(FLOW_OK, buf, None, None,
                                     <<>>, <<>>, <<>>)
                        ELSE Tracked(FLOW_OK, buf,
                                     ImgOfBuf(previous_frame), ImgOfBuf(buf),
                                     corners0, corners1, status)
            /\ previous_frame' = buf

\* one track error per corner
TrackErrors(n) == [i \in 1..n |-> 0]

\* the pixels of the n-th frame the finder receives: consecutive frames
\* differ
TrackerData(n) == IF n % 2 = 1 THEN [raw |-> "a"] ELSE [raw |-> "b"]

TrackerFrame ==
    LET n == Len(frames_received) + 1
        buf == FrameBuf(TrackerData(n), n)
    IN  \/ /\ previous_frame = None
           /\ ChainFinder(buf, <<>>, <<>>, <<>>, <<>>)
        \/ /\ previous_frame # None
           /\ \E corners0 \in ListsUpTo(TrackPoints, MaxCorners) :
                \E corners1 \in [1..Len(corners0) -> TrackPoints],
                   status \in [1..Len(corners0) -> {0, 1}] :
                  ChainFinder(buf, corners0, corners1, status,
                              TrackErrors(Len(corners0)))

\* __init__ of the finder, with the ignore box of its properties
InitTracker(box) ==
    /\ previous_frame = None
    /\ mask = None
    /\ tracker_box = box
    /\ mask_writes = 0
    /\ frames_received = <<>>
    /\ flow_pushed = <<>>
    /\ track = [outcome |-> NOT_CALLED, buf |-> None, img0 |-> None,
                img1 |-> None, corners0 |-> <<>>, corners1 |-> <<>>,
                status |-> <<>>]

\* the ignore boxes of the model for frames of a size: none, one with a
\* single coordinate left at -1, the pixel (1, 0) and the pixel at the
\* bottom of the first column
BottomBox(size) == << 0, 0, size[2] - 1, size[2] - 1 >>

BoxesFor(size) ==
    { DisabledBox, << 1, -1, 0, 0 >>, << 1, 1, 0, 0 >>, BottomBox(size) }

\* the muxer on its own (the other elements with their default properties)
Init ==
    /\ InitMux
    /\ InitCorr(FALSE, LUCAS_KANADE, DisabledBox, AllNames)
    /\ InitTracker(DisabledBox)
    /\ frame_size = <<FrameWidth, FrameHeight>>

NextMux == MuxFlowArrival \/ MuxMainArrival

SpecMux == Init /\ [][NextMux]_vars

\* algorithms, frame sizes and ignore boxes of the corrector in the model
\* (only the Lucas-Kanade finder is given a mask)
CorrConfig(alg, size, box, names) ==
    [alg |-> alg, size |-> size, box |-> box, names |-> names]

CorrConfigs ==
    LET wide == <<FrameWidth, FrameHeight>>
        tall == <<FrameHeight, FrameWidth>>
    IN  { CorrConfig(LUCAS_KANADE, wide, DisabledBox, AllNames),
          CorrConfig(SURF, wide, DisabledBox, AllNames),
          CorrConfig(3, wide, DisabledBox, AllNames),
          CorrConfig(LUCAS_KANADE, tall, BottomBox(tall), AllNames) }
        \cup { CorrConfig(LUCAS_KANADE, wide, BottomBox(wide), names) :
                   names \in UtilNames }

\* the corrector on its own, for every setting of the properties
InitCorrector ==
    /\ InitMux
    /\ InitTracker(DisabledBox)
    /\ \E mult \in BOOLEAN, c \in CorrConfigs :
          /\ InitCorr(mult, c.alg, c.box, c.names)
          /\ frame_size = c.size

NextCorr == CorrectorFrame

SpecCorr == InitCorrector /\ [][NextCorr]_vars

\* frame sizes and ignore boxes of the finder in the model
TrackerConfigs ==
    LET wide == <<FrameWidth, FrameHeight>>
        tall == <<FrameHeight, FrameWidth>>
    IN  { [size |-> wide, box |-> box] : box \in BoxesFor(wide) }
        \cup { [size |-> tall, box |-> BottomBox(tall)] }

\* the finder on its own, for every frame size and ignore box
InitFinder ==
    /\ InitMux
    /\ InitCorr(FALSE, LUCAS_KANADE, DisabledBox, AllNames)
    /\ \E c \in TrackerConfigs :
          /\ frame_size = c.size
          /\ InitTracker(c.box)

NextFinder == TrackerFrame

SpecFinder == InitFinder /\ [][NextFinder]_vars

\* one stream through one of the two elements: the corrector or the finder
InitStages == InitCorrector \/ InitFinder

NextStages ==
    \/ frames_received = <<>> /\ CorrectorFrame
    \/ received = <<>> /\ TrackerFrame

SpecStages == InitStages /\ [][NextStages]_vars

\* ------------------------------------------------------------------------
\* Properties of OpticalFlowMuxer
\* ------------------------------------------------------------------------
Stamps(bufs) == [i \in 1..Len(bufs) |-> bufs[i].timestamp]

Mismatch(a) == a.main.timestamp # a.flow.timestamp

\* a pairing attempt has found unequal timestamps
Desynced == \E i \in 1..Len(attempts) : Mismatch(attempts[i])

\* C1: when both ports have received the same sequence of N timestamps,
\* exactly N calls to mux have been made, the i-th with the i-th main buffer
\* and the unpickled flow of the i-th flow buffer (equal timestamps, in
\* timestamp order), and both queues are empty.
C1_Lockstep ==
    Stamps(main_arrived) = Stamps(flow_arrived) =>
        /\ Len(mux_calls) = Len(main_arrived)
        /\ \A i \in 1..Len(mux_calls) :
              /\ mux_calls[i].buf = main_arrived[i]
              /\ mux_calls[i].flow = Loads(flow_arrived[i].data)
              /\ attempts[i].flow.timestamp = mux_calls[i].buf.timestamp
        /\ pending_flow = <<>>
        /\ pending_main = <<>>

C1_Witness ==
    /\ Len(main_arrived) >= 3
    /\ Stamps(main_arrived) = Stamps(flow_arrived)
    /\ Len(mux_calls) = Len(main_arrived)
    /\ mux_calls[3].buf.timestamp > mux_calls[1].buf.timestamp

\* the calls to mux that the equal-timestamp pairs among att account for
RECURSIVE MatchedCalls(_)
MatchedCalls(att) ==
    IF att = <<>> THEN <<>>
    ELSE LET a == att[Len(att)]
             before == MatchedCalls(SubSeq(att, 1, Len(att) - 1))
         IN  IF Mismatch(a) THEN before
             ELSE Append(before, [buf |-> a.main, flow |-> Loads(a.flow.data)])

\* C2: a step whose pairing attempt pops two heads of different timestamps
\* makes no call to mux and returns FLOW_ERROR, and the equal-timestamp
\* pairs popped before it have all been combined.
C2_DesyncIsError ==
    [][ (/\ Len(attempts') = Len(attempts) + 1
         /\ Mismatch(attempts'[Len(attempts')]))
        => /\ mux_calls' = mux_calls
           /\ mux_ret' = FLOW_ERROR
           /\ mux_calls = MatchedCalls(attempts) ]_vars

C2_Witness ==
    /\ Len(attempts) = 2
    /\ ~ Mismatch(attempts[1])
    /\ Mismatch(attempts[2])
    /\ Len(mux_calls) = 1
    /\ mux_ret = FLOW_ERROR

\* C3: once a pairing attempt has found unequal timestamps, no later
\* arrival makes a call to mux.
C3_HaltedAfterDesync ==
    [][ Desynced => mux_calls' = mux_calls ]_vars

\* C4: an arrival on one port while the queue of the other port is empty
\* appends the buffer to its own queue and does nothing else: nothing is
\* popped, mux is not called and FLOW_OK is returned.
C4_OneSidedWaits ==
    [][ /\ (flow_arrived' # flow_arrived /\ pending_main = <<>>)
            => /\ pending_flow' =
                     Append(pending_flow, flow_arrived'[Len(flow_arrived')])
               /\ pending_main' = <<>>
               /\ mux_calls' = mux_calls
               /\ attempts' = attempts
               /\ mux_ret' = FLOW_OK
        /\ (main_arrived' # main_arrived /\ pending_flow = <<>>)
            => /\ pending_main' =
                     Append(pending_main, main_arrived'[Len(main_arrived')])
               /\ pending_flow' = <<>>
               /\ mux_calls' = mux_calls
               /\ attempts' = attempts
               /\ mux_ret' = FLOW_OK ]_vars

C4_Witness ==
    /\ Len(pending_main) = 2
    /\ pending_main = main_arrived
    /\ pending_flow = <<>>
    /\ flow_arrived = <<>>
    /\ mux_calls = <<>>
    /\ mux_ret = FLOW_OK

\* ------------------------------------------------------------------------
\* Properties of OpticalFlowCorrector
\* ------------------------------------------------------------------------
\* a step that is one _chain call
ChainStep == received' # received

\* the branches that end in the except clause
Failed == { "fit_failed", "warp_failed" }

\* C5: a _chain call on a corrector with no reference pushes the buffer
\* itself, makes its image the reference image and the last output, leaves
\* the anchor absent and the accumulator at identity, and the corrector has
\* a reference afterwards.
C5_FirstFrame ==
    [][ (ChainStep /\ reference_img = None)
        => LET buf == received'[Len(received')]
           IN  /\ pushed' = Append(pushed, buf)
               /\ reference_img' = ImgOfBuf(buf)
               /\ last_output_img' = ImgOfBuf(buf)
               /\ reference_blob' = None
               /\ reference_transform' = Identity
               /\ reference_img' # None
               /\ corr_ret' = FLOW_OK ]_vars

C5_Witness ==
    /\ Len(received) = 1
    /\ cur.branch = "first"
    /\ pushed = received
    /\ reference_img = ImgOfBuf(received[1])
    /\ last_output_img = reference_img

\* C6: a _chain call in which the finder returned None or a flow with no
\* point pairs pushes the buffer itself and leaves reference image, anchor,
\* accumulator and last output as they were.
C6_MissLeavesState ==
    [][ (/\ ChainStep
         /\ cur'.finder_call # None
         /\ (cur'.flow = None \/ Len(cur'.flow.c0) = 0))
        => /\ pushed' = Append(pushed, cur'.buf)
           /\ UNCHANGED <<reference_img, reference_blob,
                          reference_transform, last_output_img>> ]_vars

\* C7: a _chain call in which the fit or the warp raised cv2.error pushes
\* the buffer itself, makes its image the reference image, clears the
\* anchor and returns normally; the next call hands the finder that raw
\* image as reference and no anchor.
C7_FailureRecovery ==
    [][ ChainStep =>
        /\ cur'.branch \in Failed
            => /\ pushed' = Append(pushed, cur'.buf)
               /\ reference_img' = ImgOfBuf(cur'.buf)
               /\ reference_blob' = None
               /\ corr_ret' = FLOW_OK
        /\ cur.branch \in Failed
            => cur'.finder_call =
                 [gray_ref_img |-> GrayScale(ImgOfBuf(cur.buf)),
                  gray_img |-> GrayScale(ImgOfBuf(cur'.buf)),
                  blob |-> None] ]_vars

C7_Witness ==
    /\ cur.after \in Failed
    /\ Len(received) >= 3
    /\ cur.finder_call # None
    /\ cur.finder_call.gray_ref_img =
          GrayScale(ImgOfBuf(received[Len(received) - 1]))
    /\ cur.finder_call.blob = None
    /\ pushed[Len(received) - 1] = received[Len(received) - 1]
    /\ received[Len(received) - 1].data # received[Len(received) - 2].data

\* C8 as stated: after a failure on a frame the tracking state is that of a
\* new corrector that received the frame as its first frame.
C8_FailureIsFreshStart ==
    cur.branch \in Failed
    => LET fresh == FirstFrame(cur.buf, None)
       IN  /\ reference_img = fresh.reference_img
           /\ reference_blob = fresh.reference_blob
           /\ last_output_img = fresh.last_output_img
           /\ reference_transform = Identity

\* C8 amended: a failure on a frame gives the reference image and the
\* anchor of a new corrector that received the frame as its first frame;
\* the last output is left as it was and the accumulator is not reset (it
\* is unchanged when the fit failed, and holds the accumulation of the
\* fitted transform when the warp failed).
C8_FailureResetsReferenceOnly ==
    [][ (ChainStep /\ cur'.branch \in Failed)
        => LET fresh == FirstFrame(cur'.buf, None)
           IN  /\ reference_img' = fresh.reference_img
               /\ reference_blob' = fresh.reference_blob
               /\ last_output_img' = last_output_img
               /\ cur'.branch = "fit_failed"
                    => reference_transform' = reference_transform
               /\ cur'.branch = "warp_failed"
                    => reference_transform' =
                         IF multiply_transforms
                         THEN Dot(fitted'[Len(fitted')], reference_transform)
                         ELSE fitted'[Len(fitted')] ]_vars

C8_Witness ==
    /\ cur.branch \in Failed
    /\ reference_img = ImgOfBuf(cur.buf)
    /\ reference_blob = None
    /\ last_output_img # ImgOfBuf(cur.buf)
    /\ reference_transform # Identity

\* T_N . T_(N-1) . ... . T_1 for ts = <<T_1, ..., T_N>>
RECURSIVE ProductLeft(_)
ProductLeft(ts) ==
    IF ts = <<>> THEN Identity
    ELSE Dot(ts[Len(ts)], ProductLeft(SubSeq(ts, 1, Len(ts) - 1)))

\* C9: in composed mode the accumulator is the product T_N . ... . T_1 of
\* the transforms fitted so far (identity when there is none); in direct
\* mode it is the last transform fitted.
C9_Accumulator ==
    IF multiply_transforms
    THEN reference_transform = ProductLeft(fitted)
    ELSE reference_transform =
            IF fitted = <<>> THEN Identity ELSE fitted[Len(fitted)]

C9_Witness ==
    /\ multiply_transforms
    /\ Len(fitted) >= 2
    /\ Dot(fitted[2], fitted[1]) # Dot(fitted[1], fitted[2])
    /\ reference_transform = ProductLeft(fitted)
    /\ reference_transform # Identity

\* C10: a _chain call that corrects a frame pushes the warped image with
\* the metadata of the input and makes it the last output; in composed mode
\* the reference image becomes the raw frame and the anchor the finder's
\* blob as returned, in direct mode the reference image becomes the warped
\* image and the anchor the finder's blob warped by the transform fitted.
C10_ReferenceUpdate ==
    [][ (ChainStep /\ cur'.branch = "corrected")
        => LET buf == cur'.buf
               img == ImgOfBuf(buf)
               transform == fitted'[Len(fitted')]
               new_img == WarpPerspective(img, reference_transform',
                                          last_output_img)
           IN  /\ pushed' = Append(pushed, BufOfImg(new_img, buf))
               /\ last_output_img' = new_img
               /\ IF multiply_transforms
                  THEN /\ reference_img' = img
                       /\ reference_blob' = cur'.blob
                  ELSE /\ reference_img' = new_img
                       /\ reference_blob' = WarpBlob(cur'.blob, transform)
      ]_vars

C10_Witness ==
    /\ cur.branch = "corrected"
    /\ cur.after = "corrected"
    /\ ~ multiply_transforms
    /\ reference_img = last_output_img
    /\ reference_img # ImgOfBuf(cur.buf)
    /\ reference_blob = WarpBlob(cur.blob, fitted[Len(fitted)])

\* ------------------------------------------------------------------------
\* Properties of OpticalFlowFinder
\* ------------------------------------------------------------------------
\* a step that is one chain call of the finder
TrackStep == frames_received' # frames_received

\* the ignore box is active: none of its coordinates is -1
BoxActive(box) == ~ (\E i \in 1..4 : box[i] = -1)

\* p lies in the rectangle of the box, bounds included
InsideBox(p, box) ==
    /\ box[1] <= p[1] /\ p[1] <= box[2]
    /\ box[3] <= p[2] /\ p[2] <= box[4]

\* the flow carried by the last buffer the finder pushed
LastFlow == Loads(flow_pushed[Len(flow_pushed)].data)

\* the elements of list at the indices that satisfy keep, in order
RECURSIVE Kept(_, _, _)
Kept(list, keep(_), n) ==
    IF n = 0 THEN <<>>
    ELSE IF keep(n) THEN Append(Kept(list, keep, n - 1), list[n])
         ELSE Kept(list, keep, n - 1)

\* C11: a flow the finder computes has as many origins as destinations, and
\* they are the corners and their tracked positions at exactly the indices
\* where tracking succeeded and neither the corner nor its tracked position
\* is in the active ignore box.
C11_PairsStayAligned ==
    track.img0 # None
    => LET pair_kept(i) ==
               /\ track.status[i] = 1
               /\ ~ (BoxActive(tracker_box)
                     /\ InsideBox(track.corners0[i], tracker_box))
               /\ ~ (BoxActive(tracker_box)
                     /\ InsideBox(track.corners1[i], tracker_box))
           n == Len(track.corners0)
       IN  /\ Len(LastFlow.c0) = Len(LastFlow.c1)
           /\ LastFlow.c0 = Kept(track.corners0, pair_kept, n)
           /\ LastFlow.c1 = Kept(track.corners1, pair_kept, n)

\* C12: with an active ignore box, no flow the finder has pushed holds a
\* point of the box, among the origins or among the destinations.
C12_NoPointInBox ==
    \A k \in 1..Len(flow_pushed) :
        LET flow == Loads(flow_pushed[k].data)
        IN  (flow # None /\ BoxActive(tracker_box))
            => /\ \A i \in 1..Len(flow.c0) :
                     ~ InsideBox(flow.c0[i], tracker_box)
               /\ \A i \in 1..Len(flow.c1) :
                     ~ InsideBox(flow.c1[i], tracker_box)

C12_Witness ==
    /\ track.img0 # None
    /\ BoxActive(tracker_box)
    /\ Len(track.corners0) >= 1
    /\ track.status[1] = 1
    /\ InsideBox(track.corners0[1], tracker_box)
    /\ ~ InsideBox(track.corners1[1], tracker_box)
    /\ Len(LastFlow.c0) < Len(LastFlow.c1)
    /\ track.corners1[1] = LastFlow.c1[1]

\* the mask of a width x height frame stored row by row: 0 at the pixels
\* of the box, 1 elsewhere
MaskOfBox(width, height, box) ==
    [i \in 1..(width * height) |->
        IF InsideBox(<<(i - 1) % width, (i - 1) \div width>>, box)
        THEN 0 ELSE 1]

\* C13: once a finder with an active ignore box has received a frame, its
\* mask has width*height entries, 0 at the pixels of the box and 1 at all
\* others (building it did not leave the array).
C13_MaskContent ==
    (BoxActive(tracker_box) /\ frames_received # <<>>)
    => /\ mask # None
       /\ mask.data = MaskOfBox(frame_size[1], frame_size[2], tracker_box)

\* C14: the box is disabled exactly when one of its coordinates is -1.
\* With a disabled box the mask is never assigned and the box filters no
\* point; with an active box every chain call leaves a mask that has been
\* built (its width*height entries are set), that has been assigned exactly
\* once, on the first frame, and that is the one of the call before.
C14_MaskLifecycle ==
    [][ TrackStep =>
        /\ (~ BoxActive(tracker_box))
            => /\ mask' = None
               /\ mask_writes' = 0
               /\ track'.img0 # None
                    => LET tracked(i) == track'.status[i] = 1
                           n == Len(track'.corners0)
                       IN  /\ LastFlow'.c0 = Kept(track'.corners0, tracked, n)
                           /\ LastFlow'.c1 = Kept(track'.corners1, tracked, n)
        /\ BoxActive(tracker_box)
            => /\ mask' # None
               /\ Len(mask'.data) = frame_size[1] * frame_size[2]
               /\ mask_writes' = 1
               /\ frames_received = <<>> => mask = None
               /\ frames_received # <<>> => mask' = mask ]_vars

\* ------------------------------------------------------------------------
\* Properties of the stream through one element
\* ------------------------------------------------------------------------
Recognized == algorithm \in { LUCAS_KANADE, SURF }

\* C15: a corrector with a recognized algorithm has pushed one frame for
\* each frame it received, the k-th pushed frame carrying the timestamp of
\* the k-th received, and the finder has pushed one flow buffer for each
\* frame it received, in the same order.
C15_OneForOne ==
    /\ Recognized
        => /\ Len(pushed) = Len(received)
           /\ \A k \in 1..Len(pushed) :
                 pushed[k].timestamp = received[k].timestamp
    /\ Len(flow_pushed) = Len(frames_received)
    /\ \A k \in 1..Len(flow_pushed) :
          flow_pushed[k].timestamp = frames_received[k].timestamp

\* C16: the frame a _chain call of the corrector pushes has the timestamp,
\* duration, offset and end offset of the frame the call received, also
\* when its image is a corrected one; the flow buffer a chain call of the
\* finder pushes has the timestamp of the frame the call received.
C16_MetadataKept ==
    [][ /\ (ChainStep /\ pushed' # pushed)
            => LET out == pushed'[Len(pushed')]
                   buf == cur'.buf
               IN  /\ pushed' = Append(pushed, out)
                   /\ out.timestamp = buf.timestamp
                   /\ out.duration = buf.duration
                   /\ out.offset = buf.offset
                   /\ out.offset_end = buf.offset_end
        /\ (TrackStep /\ flow_pushed' # flow_pushed)
            => LET out == flow_pushed'[Len(flow_pushed')]
               IN  /\ flow_pushed' = Append(flow_pushed, out)
                   /\ out.timestamp = track'.buf.timestamp ]_vars

C16_Witness ==
    /\ cur.branch = "corrected"
    /\ pushed[Len(pushed)].data # cur.buf.data
    /\ pushed[Len(pushed)].timestamp = cur.buf.timestamp
    /\ pushed[Len(pushed)].timestamp >= 3

\* C17: the first chain call of the finder pushes the flow None and runs no
\* detection or tracking; every later call pushes a flow that is not None,
\* computed from the frame of the call before and the frame of the call,
\* and an empty flow is pushed like any other.
C17_FirstFrameNone ==
    [][ TrackStep =>
        /\ Len(flow_pushed') = Len(flow_pushed) + 1
        /\ SubSeq(flow_pushed', 1, Len(flow_pushed)) = flow_pushed
        /\ track'.outcome = FLOW_OK
        /\ frames_received = <<>>
            => /\ LastFlow' = None
               /\ track'.img0 = None
        /\ frames_received # <<>>
            => /\ LastFlow' # None
               /\ track'.img0
                    = ImgOfBuf(frames_received[Len(frames_received)])
               /\ track'.img1 = ImgOfBuf(track'.buf) ]_vars

\* C18: a corrector whose algorithm is not a recognized one pushes no frame.
C18_NoFrameWithoutFinder ==
    (~ Recognized) => pushed = <<>>

\* C19: the corrected image a _chain call pushes is the warp of the frame
\* drawn over the image of the frame pushed by the call before.
C19_OverPreviousOutput ==
    [][ (ChainStep /\ cur'.branch = "corrected")
        => pushed'[Len(pushed')].data.over = pushed[Len(pushed)].data ]_vars

\* C20: a corrector that has received a frame has a reference image, a
\* reference image once present stays present over every _chain call, the
\* failing ones included, and only the first call takes the branch of a
\* corrector without reference.
C20_TrackingAbsorbing ==
    [][ ChainStep =>
        /\ reference_img' # None
        /\ reference_img # None <=> received # <<>>
        /\ cur'.branch = "first" <=> received = <<>> ]_vars

C20_Witness ==
    /\ Len(received) >= 3
    /\ cur.branch \in { "miss", "corrected" }
    /\ cur.after \in Failed
    /\ reference_img # None

\* ------------------------------------------------------------------------
\* Properties of the queues of OpticalFlowMuxer
\* ------------------------------------------------------------------------
\* C21: after every arrival (the append and its one pairing attempt) at
\* most one of the two queues holds a buffer, whatever the order of the
\* arrivals on the two ports.
C21_OneQueueEmpty ==
    pending_flow = <<>> \/ pending_main = <<>>

C21_Witness ==
    /\ Len(attempts) >= 1
    /\ Mismatch(attempts[1])
    /\ Len(main_arrived) > Len(flow_arrived)
    /\ Len(pending_main) >= 2
    /\ pending_flow = <<>>

Min2(a, b) == IF a <= b THEN a ELSE b

\* C22: the k-th pairing attempt compares the k-th buffer received on the
\* main port with the k-th buffer received on the flow port; there are as
\* many attempts as the smaller of the two arrival counts; the queues hold
\* exactly the buffers that arrived after those compared, so both heads of
\* a mismatch are gone; and mux has been called for the equal-timestamp
\* attempts only.
C22_PairsByPosition ==
    LET n == Len(attempts)
    IN  /\ n = Min2(Len(main_arrived), Len(flow_arrived))
        /\ \A k \in 1..n :
              /\ attempts[k].main = main_arrived[k]
              /\ attempts[k].flow = flow_arrived[k]
        /\ pending_main = SubSeq(main_arrived, n + 1, Len(main_arrived))
        /\ pending_flow = SubSeq(flow_arrived, n + 1, Len(flow_arrived))
        /\ mux_calls = MatchedCalls(attempts)

C22_Witness ==
    /\ Len(attempts) = 2
    /\ Mismatch(attempts[1])
    /\ ~ Mismatch(attempts[2])
    /\ attempts[2].main = main_arrived[2]
    /\ attempts[2].flow = flow_arrived[2]
    /\ Len(flow_arrived) = 3
    /\ pending_flow = << flow_arrived[3] >>
    /\ Len(mux_calls) = 1

\* ------------------------------------------------------------------------
\* Properties of a failed fit in OpticalFlowCorrector
\* ------------------------------------------------------------------------
\* C23: a _chain call in which the fit raised cv2.error leaves the
\* accumulator and the last output as they were and changes only the
\* reference image and the anchor; in composed mode the accumulator is
\* still the product of the transforms fitted before the call.
C23_FitFailureKeepsAccumulation ==
    [][ (ChainStep /\ cur'.branch = "fit_failed")
        => /\ reference_transform' = reference_transform
           /\ last_output_img' = last_output_img
           /\ fitted' = fitted
           /\ reference_img' = ImgOfBuf(cur'.buf)
           /\ reference_blob' = None
           /\ multiply_transforms
                => reference_transform' = ProductLeft(fitted) ]_vars

C23_Witness ==
    /\ cur.branch = "fit_failed"
    /\ multiply_transforms
    /\ Len(fitted) >= 2
    /\ reference_transform = ProductLeft(fitted)
    /\ reference_transform # Identity
    /\ last_output_img # ImgOfBuf(cur.buf)
    /\ reference_img = ImgOfBuf(cur.buf)

====
